---- MODULE Spec2Model ----
(***************************************************************************)
(* Model of the filing ETL orchestration:                                  *)
(*   src/src/core/zip_processor.py  ZipProcessor.process_zip_file,         *)
(*                                  process_directory,                     *)
(*                                  process_mixed_directory                *)
(*   src/src/utils/cik_filter.py    load_cik_list                          *)
(*   src/src/utils/cik_loader.py    load_cik_list                          *)
(* FilingManager (src/core/filing_manager.py) is not part of the sources   *)
(* at hand; its three operations used here are modelled from sections 4.2, *)
(* 4.3 and 4.4 of the specification.                                       *)
(***************************************************************************)
EXTENDS Integers, Sequences, FiniteSets, TLC

\* ------------------------------------------------------------------ bounds
MaxZips == 2
MaxFiles == 2
MaxRows == 2
MaxFieldLen == 2

\* --------------------------------------------------------------- constants
\* width of a zero-padded identifier (zfill(10))
CikWidth == 10

\* None, for the year and the form type (strings)
NoVal == "None"
\* no match of a digit pattern; no identifier (None or "", both falsy)
NoDigits == <<>>
NoCik == <<>>

VARIABLES
    pc,               \* position of the running entry point
    cik_filter,       \* the cik_filter argument: None (not given) or a set of identifiers
    zips_seen,        \* archives the directory loop has visited so far
    files_seen,       \* archive members and loose files the directory has shown so far
    unreadable,       \* archives (by number) whose ZipFile() open raised
    listed,           \* recognized members of the readable archives
    namelist,         \* members of the archive being read that are still to come
    member_ix,        \* index in the archive of the member at the head of namelist
    live_tmp,         \* scratch directories that exist on disk
    tmp_made,         \* scratch directories created so far
    zip_text_files,   \* process_mixed_directory: paths extracted from archives
    loose_files,      \* process_mixed_directory: loose paths of the input directory
    text_files,       \* process_zip_file: member names still to handle
    filings,          \* FilingManager registry: groups in first-seen order
    to_process,       \* selection["process"] as a set
    to_skip,          \* selection["skip"] as a set
    pending,          \* members of to_process the extraction loop has not visited
    handed,           \* every path handed to extractor.extract_from_file, in order
    tried,            \* per-file try blocks entered by process_zip_file
    stats,            \* the stats dict of the running call
    overall_stats,    \* process_directory: overall_stats
    loader,           \* which load_cik_list is running
    rows,             \* rows the csv reader has yielded so far
    ciks              \* load_cik_list: the set being built

runVars == <<pc, cik_filter, zips_seen, files_seen, unreadable, listed, namelist, member_ix,
             live_tmp, tmp_made, zip_text_files, loose_files, text_files, filings,
             to_process, to_skip, pending, handed, tried, stats, overall_stats>>
loadVars == <<loader, rows, ciks>>
vars == <<runVars, loadVars>>

\* ------------------------------------------------------ sequence utilities
RECURSIVE SeqToSet(_)
SeqToSet(s) == IF s = <<>> THEN {} ELSE {Head(s)} \cup SeqToSet(Tail(s))

Contains(s, x) == \E i \in 1..Len(s) : s[i] = x

\* list(dict.fromkeys(s)): first occurrence of each element, order kept
RECURSIVE DedupeFrom(_, _)
DedupeFrom(s, seen) ==
    IF s = <<>> THEN <<>>
    ELSE IF Head(s) \in seen THEN DedupeFrom(Tail(s), seen)
    ELSE <<Head(s)>> \o DedupeFrom(Tail(s), seen \cup {Head(s)})

Dedupe(s) == DedupeFrom(s, {})

SeqsUpTo(S, n) == UNION {[1..k -> S] : k \in 0..n}

\* ============================================================ identifiers
Digits == {"0", "1"}
Chars == Digits \cup {"c", " "}
IsDigit(ch) == ch \in Digits
IsSpace(ch) == ch = " "

RECURSIVE LStrip(_)
LStrip(s) == IF s /= <<>> /\ IsSpace(Head(s)) THEN LStrip(Tail(s)) ELSE s

RECURSIVE RStrip(_)
RStrip(s) ==
    IF s /= <<>> /\ IsSpace(s[Len(s)]) THEN RStrip(SubSeq(s, 1, Len(s) - 1)) ELSE s

\* str.strip()
Strip(s) == RStrip(LStrip(s))

\* ''.join(filter(str.isdigit, cik))
OnlyDigits(s) == SelectSeq(s, IsDigit)

RECURSIVE Zeros(_)
Zeros(n) == IF n <= 0 THEN <<>> ELSE <<"0">> \o Zeros(n - 1)

\* str.zfill(10); none of Chars is a sign, so the padding is a plain prefix
ZFill(s) == Zeros(CikWidth - Len(s)) \o s

Fields == SeqsUpTo(Chars, MaxFieldLen)
\* a row of the csv reader: empty, or a first field and (ignored) further fields
Rows == {<<>>} \cup {<<f>> : f \in Fields} \cup {<<f, <<"c">>>> : f \in {<<"1">>}}

\* src/utils/cik_filter.py, body of the row loop
CikFilterRow(row) ==
    IF row = <<>> THEN {}
    ELSE LET cik == Strip(row[1])
         IN IF cik = <<>> THEN {}
            ELSE LET cik_digits == OnlyDigits(cik)
                 IN IF cik_digits = <<>> THEN {} ELSE {ZFill(cik_digits)}

\* src/utils/cik_loader.py, body of the row loop
CikLoaderRow(row) ==
    IF row = <<>> THEN {}
    ELSE LET cik == Strip(row[1])
         IN IF cik = <<>> THEN {} ELSE {ZFill(cik)}

LoaderRow(mod, row) == IF mod = "cik_filter" THEN CikFilterRow(row) ELSE CikLoaderRow(row)

\* ============================================================== file names
\* A file name is represented by what the name patterns find in it: the
\* digits after "edgar_data_", the first bare run of 4 to 10 digits, the
\* fiscal year, the form token and the suffix.
Cik1 == ZFill(<<"1">>)
Cik2 == ZFill(<<"1", "0", "0", "1">>)

K1 == [edgar |-> <<"1">>, bare |-> NoDigits, year |-> "2020", form |-> "10-K", ext |-> ".txt"]
Q1 == [edgar |-> <<"1">>, bare |-> NoDigits, year |-> "2020", form |-> "10-Q", ext |-> ".txt"]
K2 == [edgar |-> NoDigits, bare |-> <<"1", "0", "0", "1">>, year |-> "2020", form |-> "10-K",
       ext |-> ".txt"]
O1 == [edgar |-> <<"1">>, bare |-> <<"1", "0", "0", "1">>, year |-> "2020", form |-> "8-K",
       ext |-> ".txt"]
NC == [edgar |-> NoDigits, bare |-> NoDigits, year |-> "2020", form |-> "10-K", ext |-> ".txt"]
NY == [edgar |-> <<"1">>, bare |-> NoDigits, year |-> NoVal, form |-> "10-K", ext |-> ".txt"]
RD == [edgar |-> NoDigits, bare |-> NoDigits, year |-> NoVal, form |-> NoVal, ext |-> ".pdf"]

TextNames == {K1, Q1, K2, O1, NC, NY}
Names == TextNames \cup {RD}

\* config.settings.VALID_EXTENSIONS, as used by any(f.endswith(ext) ...)
VALID_EXTENSIONS == {".txt"}
IsTextName(n) == n.ext \in VALID_EXTENSIONS

\* a member of an archive: its name and whether zf.extract succeeds on it
Members == [name : Names, ok : {TRUE}] \cup [name : {K1}, ok : {FALSE}]

\* the cik_filter arguments tried
NoFilter == [given |-> FALSE, ciks |-> {}]
Filters == {NoFilter, [given |-> TRUE, ciks |-> {Cik1}]}

\* a path: the directory that holds the file (0: the input directory,
\* k > 0: the k-th scratch directory) and the file name
PathOf(dir, n) == [dir |-> dir, name |-> n]

\* ZipProcessor._extract_cik_from_name
_extract_cik_from_name(n) ==
    IF n.edgar /= NoDigits THEN ZFill(n.edgar)
    ELSE IF n.bare /= NoDigits THEN ZFill(n.bare)
    ELSE NoCik

\* ZipProcessor._is_10k
_is_10k(n) == n.form = "10-K"

\* the test "cik and cik in cik_filter" of the filter branches
CikPresentOnly(cik, flt) == cik /= NoCik
CikInFilter(cik, flt) == cik /= NoCik /\ cik \in flt.ciks

\* form_type.startswith("10-K") / startswith("10-Q")
StartsWith10K(ft) == ft = "10-K"
StartsWith10Q(ft) == ft = "10-Q"

\* ---------------------------------------------------------- FilingManager
\* FilingManager._parse_filename_metadata: (cik, year, form_type)
_parse_filename_metadata(fp) ==
    <<IF fp.name.edgar /= NoDigits THEN ZFill(fp.name.edgar)
      ELSE IF fp.name.bare /= NoDigits THEN ZFill(fp.name.bare)
      ELSE NoCik,
      fp.name.year, fp.name.form>>

IsAnnual(ft) == ft = "10-K"
IsQuarterly(ft) == ft = "10-Q"

GroupIx(reg, key) == {i \in 1..Len(reg) : reg[i].key = key}

\* FilingManager.add_filing: append to the group of (cik, year), creating the
\* group at the end of the registry when the key is new
add_filing(reg, fp, cik, year, form_type) ==
    IF cik = NoCik \/ year = NoVal THEN reg
    ELSE LET key == <<cik, year>>
             f == [path |-> fp, form |-> form_type]
         IN IF GroupIx(reg, key) = {}
            THEN Append(reg, [key |-> key, files |-> <<f>>])
            ELSE [i \in 1..Len(reg) |->
                    IF reg[i].key = key
                    THEN [reg[i] EXCEPT !.files = Append(@, f)]
                    ELSE reg[i]]

\* the candidate of one group that is processed: first Annual, else first
\* Quarterly, else first of the group (rules A, B, C)
Chosen(files) ==
    LET annual == SelectSeq(files, LAMBDA f : IsAnnual(f.form))
        quarterly == SelectSeq(files, LAMBDA f : IsQuarterly(f.form))
    IN IF annual /= <<>> THEN annual[1].path
       ELSE IF quarterly /= <<>> THEN quarterly[1].path
       ELSE files[1].path

GroupPaths(g) == {g.files[i].path : i \in 1..Len(g.files)}

\* the candidates of one group that are not processed, in group order
Skipped(files) ==
    LET rest == SelectSeq(files, LAMBDA f : f.path /= Chosen(files))
    IN [i \in 1..Len(rest) |-> rest[i].path]

RECURSIVE SkippedOfAll(_)
SkippedOfAll(reg) ==
    IF reg = <<>> THEN <<>> ELSE Skipped(Head(reg).files) \o SkippedOfAll(Tail(reg))

\* FilingManager._select_filings_to_process: the dict of the two lists
_select_filings_to_process(reg) ==
    [process |-> [i \in 1..Len(reg) |-> Chosen(reg[i].files)],
     skip |-> SkippedOfAll(reg)]

\* to_process = set(selection["process"]); to_skip = set(selection["skip"])
ToProcess(selection) == SeqToSet(selection.process)
ToSkipFromProcess(selection) == SeqToSet(selection.process)
ToSkip(selection) == SeqToSet(selection.skip)

\* ============================================================== statistics
\* str(zip_path) of the k-th archive of the directory
ZipRef(k) == [zip |-> k]

\* process_zip_file: the stats dict at entry
ZipStats0(k) ==
    [zip_file |-> k, total_files |-> 0, processed |-> 0, failed |-> 0, errors |-> <<>>]

\* process_directory: overall_stats at entry
Overall0 ==
    [total_zips |-> 0, total_files |-> 0, processed |-> 0, failed |-> 0, zip_stats |-> <<>>]

\* process_mixed_directory: the stats dict at entry
MixedStats0 ==
    [zip_results |-> [total_files |-> 0, processed |-> 0, failed |-> 0],
     text_results |-> [total_files |-> 0, processed |-> 0, failed |-> 0],
     combined |-> [total_files |-> 0, processed |-> 0, failed |-> 0, skipped_10q |-> 0],
     errors |-> <<>>]

\* process_directory: fold one archive's stats into overall_stats
Aggregate(o, st) ==
    [o EXCEPT !.zip_stats = Append(@, st),
              !.total_files = @ + st.total_files,
              !.processed = @ + st.processed,
              !.failed = @ + st.failed]

\* process_zip_file: the three outcomes of one per-file try block
ZipProcessed(st) == [st EXCEPT !.processed = @ + 1]
ZipFailed(st, file_name, msg) ==
    [st EXCEPT !.failed = @ + 1,
               !.errors = Append(@, [file |-> file_name, error |-> msg])]

\* process_zip_file: the except branches of the outer try
ZipUnreadable(st, k) ==
    [st EXCEPT !.errors = Append(@, [file |-> ZipRef(k), error |-> "Invalid ZIP file"])]

\* process_mixed_directory: a truthy result
MixedProcessedCombinedOnly(st, fp, zips) == [st EXCEPT !.combined.processed = @ + 1]
MixedProcessed(st, fp, zips) ==
    IF Contains(zips, fp)
    THEN [st EXCEPT !.combined.processed = @ + 1, !.zip_results.processed = @ + 1]
    ELSE [st EXCEPT !.combined.processed = @ + 1, !.text_results.processed = @ + 1]

\* process_mixed_directory: a falsy result (msg = "") or a raise
MixedFailedNoEntry(st, fp, zips, msg) ==
    IF Contains(zips, fp)
    THEN [st EXCEPT !.combined.failed = @ + 1, !.zip_results.failed = @ + 1]
    ELSE [st EXCEPT !.combined.failed = @ + 1, !.text_results.failed = @ + 1]
MixedFailed(st, fp, zips, msg) ==
    IF Contains(zips, fp)
    THEN [st EXCEPT !.combined.failed = @ + 1, !.zip_results.failed = @ + 1,
                    !.errors = Append(@, [file |-> fp, error |-> msg])]
    ELSE [st EXCEPT !.combined.failed = @ + 1, !.text_results.failed = @ + 1,
                    !.errors = Append(@, [file |-> fp, error |-> msg])]

\* process_mixed_directory, step 5: the 10-Q entries of to_skip
Skipped10Q(skip) ==
    Cardinality({fp \in skip : StartsWith10Q(_parse_filename_metadata(fp)[3])})

\* ------------------------------------------------------------- filtering
\* process_mixed_directory._match
_match(fp, flt) ==
    IF ~flt.given THEN TRUE
    ELSE CikInFilter(_extract_cik_from_name(fp.name), flt) /\ _is_10k(fp.name)

\* process_zip_file: the filter applied to the member list
ZipFiltered(members, flt) ==
    IF ~flt.given THEN members
    ELSE SelectSeq(members,
            LAMBDA m : CikInFilter(_extract_cik_from_name(m.name), flt) /\ _is_10k(m.name))

\* process_zip_file: the two "continue" tests of the per-file loop
ZipSkipsFile(fp, flt) ==
    LET md == _parse_filename_metadata(fp)
    IN flt.given /\ (~CikInFilter(md[1], flt) \/ md[3] = NoVal \/ ~StartsWith10K(md[3]))

\* process_mixed_directory, step 2: the registration loop
RECURSIVE RegisterAll(_, _, _)
RegisterAll(reg, files, flt) ==
    IF files = <<>> THEN reg
    ELSE LET fp == Head(files)
             md == _parse_filename_metadata(fp)
             dropped == flt.given /\ (~CikInFilter(md[1], flt)
                                       \/ (md[3] /= NoVal /\ ~StartsWith10K(md[3])))
             complete == md[1] /= NoCik /\ md[2] /= NoVal /\ md[3] /= NoVal
         IN RegisterAll(IF ~dropped /\ complete
                        THEN add_filing(reg, fp, md[1], md[2], md[3])
                        ELSE reg,
                        Tail(files), flt)

RegisterFilingsReversed(files, flt) ==
    RegisterAll(<<>>, [i \in 1..Len(files) |-> files[Len(files) + 1 - i]], flt)
\* fm = FilingManager() and the loop over all_text_files
RegisterFilings(files, flt) == RegisterAll(<<>>, files, flt)

TextMembers(nl) == SelectSeq(nl, LAMBDA m : IsTextName(m.name))
\* the recognized members of archive k: <<archive, index, name, extractable>>
ListedOf(k, nl) ==
    {<<k, i, nl[i].name, nl[i].ok>> : i \in {j \in 1..Len(nl) : IsTextName(nl[j].name)}}

Outcomes == {"truthy", "falsy", "raise"}

\* ==================================================================== Init
\* A freshly constructed ZipProcessor; no call is running.
Init ==
    /\ pc = "idle"
    /\ cik_filter = NoFilter
    /\ zips_seen = 0
    /\ files_seen = 0
    /\ unreadable = {}
    /\ listed = {}
    /\ namelist = <<>>
    /\ member_ix = 0
    /\ live_tmp = {}
    /\ tmp_made = 0
    /\ zip_text_files = <<>>
    /\ loose_files = <<>>
    /\ text_files = <<>>
    /\ filings = <<>>
    /\ to_process = {}
    /\ to_skip = {}
    /\ pending = {}
    /\ handed = <<>>
    /\ tried = 0
    /\ stats = ZipStats0(0)
    /\ overall_stats = Overall0
    /\ loader = "none"
    /\ rows = <<>>
    /\ ciks = {}

\* ======================================================= process_directory
Call_process_directory ==
    /\ pc = "idle"
    /\ \E flt \in Filters, nz \in 0..MaxZips :
        /\ cik_filter' = flt
        /\ overall_stats' = [Overall0 EXCEPT !.total_zips = nz]
    /\ pc' = "pd_loop"
    /\ UNCHANGED <<zips_seen, files_seen, unreadable, listed, namelist, member_ix, live_tmp, tmp_made,
                   zip_text_files, loose_files, text_files, filings, to_process, to_skip,
                   pending, handed, tried, stats, loadVars>>

\* process_zip_file up to the start of the per-file loop; an archive that
\* cannot be opened returns at once
PZ_Open ==
    /\ pc = "pd_loop"
    /\ zips_seen < overall_stats.total_zips
    /\ \E readable \in BOOLEAN, nl \in SeqsUpTo(Members, MaxFiles - files_seen) :
        LET k == zips_seen + 1
            tf == ZipFiltered(TextMembers(nl), cik_filter)
        IN IF ~readable
           THEN /\ nl = <<>>
                /\ stats' = ZipUnreadable(ZipStats0(k), k)
                /\ overall_stats' = Aggregate(overall_stats, stats')
                /\ unreadable' = unreadable \cup {k}
                /\ zips_seen' = k
                /\ pc' = "pd_loop"
                /\ UNCHANGED <<listed, text_files, live_tmp, tmp_made, files_seen>>
           ELSE /\ stats' = [ZipStats0(k) EXCEPT !.total_files = Len(tf)]
                /\ text_files' = tf
                /\ listed' = listed \cup ListedOf(k, nl)
                /\ tmp_made' = tmp_made + 1
                /\ live_tmp' = live_tmp \cup {tmp_made + 1}
                /\ files_seen' = files_seen + Len(nl)
                /\ pc' = "pz_files"
                /\ UNCHANGED <<overall_stats, unreadable, zips_seen>>
    /\ UNCHANGED <<cik_filter, namelist, member_ix, zip_text_files, loose_files, filings,
                   to_process, to_skip, pending, handed, loadVars>>
    /\ UNCHANGED tried

\* one iteration of "for file_name in text_files"
PZ_File ==
    /\ pc = "pz_files"
    /\ text_files /= <<>>
    /\ LET m == Head(text_files)
           fp == PathOf(tmp_made, m.name)
       IN /\ text_files' = Tail(text_files)
          /\ IF ZipSkipsFile(fp, cik_filter)
             THEN UNCHANGED <<stats, handed, tried>>
             ELSE /\ tried' = tried + 1
                  /\ IF ~m.ok
                     THEN /\ stats' = ZipFailed(stats, m.name, "extract")
                          /\ UNCHANGED handed
                     ELSE /\ handed' = Append(handed, fp)
                          /\ \E r \in Outcomes :
                               stats' = CASE r = "truthy" -> ZipProcessed(stats)
                                          [] r = "falsy" ->
                                               ZipFailed(stats, m.name, "Extraction failed")
                                          [] OTHER -> ZipFailed(stats, m.name, "raised")
    /\ UNCHANGED <<pc, cik_filter, zips_seen, files_seen, unreadable, listed, namelist, member_ix,
                   live_tmp, tmp_made, zip_text_files, loose_files, filings, to_process,
                   to_skip, pending, overall_stats, loadVars>>

\* the loop is over: TemporaryDirectory and ZipFile are left, stats returned
\* to process_directory
PZ_Close ==
    /\ pc = "pz_files"
    /\ text_files = <<>>
    /\ live_tmp' = live_tmp \ {tmp_made}
    /\ overall_stats' = Aggregate(overall_stats, stats)
    /\ zips_seen' = zips_seen + 1
    /\ pc' = "pd_loop"
    /\ UNCHANGED <<cik_filter, files_seen, unreadable, listed, namelist, member_ix, tmp_made,
                   zip_text_files, loose_files, text_files, filings, to_process, to_skip,
                   pending, handed, tried, stats, loadVars>>

PD_Return ==
    /\ pc = "pd_loop"
    /\ zips_seen = overall_stats.total_zips
    /\ pc' = "pd_done"
    /\ UNCHANGED <<cik_filter, zips_seen, files_seen, unreadable, listed, namelist, member_ix, live_tmp,
                   tmp_made, zip_text_files, loose_files, text_files, filings, to_process,
                   to_skip, pending, handed, tried, stats, overall_stats, loadVars>>

\* ================================================= process_mixed_directory
all_text_files == zip_text_files \o loose_files

Call_process_mixed_directory ==
    /\ pc = "idle"
    /\ \E flt \in Filters : cik_filter' = flt
    /\ stats' = MixedStats0
    /\ pc' = "mx_discover"
    /\ UNCHANGED <<zips_seen, files_seen, unreadable, listed, namelist, member_ix, live_tmp, tmp_made,
                   zip_text_files, loose_files, text_files, filings, to_process, to_skip,
                   pending, handed, tried, overall_stats, loadVars>>

\* step 1, next archive of the directory: ZipFile() and namelist(); a failure
\* is caught by "except Exception" and only logged
MX_Open ==
    /\ pc = "mx_discover"
    /\ zips_seen < MaxZips
    /\ \E readable \in BOOLEAN, nl \in SeqsUpTo(Members, MaxFiles - files_seen) :
        LET k == zips_seen + 1
        IN IF ~readable
           THEN /\ nl = <<>>
                /\ unreadable' = unreadable \cup {k}
                /\ zips_seen' = k
                /\ UNCHANGED <<pc, namelist, member_ix, listed, files_seen>>
           ELSE /\ namelist' = nl
                /\ member_ix' = 1
                /\ listed' = listed \cup ListedOf(k, nl)
                /\ files_seen' = files_seen + Len(nl)
                /\ pc' = "mx_members"
                /\ UNCHANGED <<unreadable, zips_seen>>
    /\ UNCHANGED <<cik_filter, live_tmp, tmp_made, zip_text_files, loose_files, text_files,
                   filings, to_process, to_skip, pending, handed, tried, stats,
                   overall_stats, loadVars>>

\* one iteration of "for member in zf.namelist()": mkdtemp, extract, append;
\* a failing extract leaves the loop and the archive through the except clause
MX_Member ==
    /\ pc = "mx_members"
    /\ namelist /= <<>>
    /\ LET m == Head(namelist)
       IN IF ~IsTextName(m.name)
          THEN /\ namelist' = Tail(namelist)
               /\ member_ix' = member_ix + 1
               /\ UNCHANGED <<pc, zips_seen, live_tmp, tmp_made, zip_text_files>>
          ELSE /\ tmp_made' = tmp_made + 1
               /\ live_tmp' = live_tmp \cup {tmp_made + 1}
               /\ IF m.ok
                  THEN /\ zip_text_files' =
                             Append(zip_text_files, PathOf(tmp_made + 1, m.name))
                       /\ namelist' = Tail(namelist)
                       /\ member_ix' = member_ix + 1
                       /\ UNCHANGED <<pc, zips_seen>>
                  ELSE /\ namelist' = <<>>
                       /\ member_ix' = 0
                       /\ zips_seen' = zips_seen + 1
                       /\ pc' = "mx_discover"
                       /\ UNCHANGED zip_text_files
    /\ UNCHANGED <<cik_filter, files_seen, unreadable, listed, loose_files, text_files, filings,
                   to_process, to_skip, pending, handed, tried, stats, overall_stats,
                   loadVars>>

\* the member loop of one archive ends normally
MX_Close ==
    /\ pc = "mx_members"
    /\ namelist = <<>>
    /\ member_ix' = 0
    /\ zips_seen' = zips_seen + 1
    /\ pc' = "mx_discover"
    /\ UNCHANGED <<cik_filter, files_seen, unreadable, listed, namelist, live_tmp, tmp_made,
                   zip_text_files, loose_files, text_files, filings, to_process, to_skip,
                   pending, handed, tried, stats, overall_stats, loadVars>>

\* the archives are done: glob the loose files, apply _match, dedupe, set the
\* totals
MX_Glob ==
    /\ pc = "mx_discover"
    /\ \E found \in SeqsUpTo(TextNames, MaxFiles - files_seen) :
        LET globbed == [i \in 1..Len(found) |-> PathOf(0, found[i])]
            zf == Dedupe(SelectSeq(zip_text_files, LAMBDA fp : _match(fp, cik_filter)))
            lf == Dedupe(SelectSeq(globbed, LAMBDA fp : _match(fp, cik_filter)))
        IN /\ zip_text_files' = zf
           /\ loose_files' = lf
           /\ stats' = [stats EXCEPT !.zip_results.total_files = Len(zf),
                                     !.text_results.total_files = Len(lf),
                                     !.combined.total_files = Len(zf \o lf)]
           /\ files_seen' = files_seen + Len(found)
    /\ pc' = "mx_register"
    /\ UNCHANGED <<cik_filter, zips_seen, unreadable, listed, namelist, member_ix, live_tmp,
                   tmp_made, text_files, filings, to_process, to_skip, pending, handed,
                   tried, overall_stats, loadVars>>

\* steps 2 and 3: register every file with the FilingManager, then select
MX_Register ==
    /\ pc = "mx_register"
    /\ filings' = RegisterFilings(all_text_files, cik_filter)
    /\ LET selection == _select_filings_to_process(filings')
       IN /\ to_process' = ToProcess(selection)
          /\ to_skip' = ToSkip(selection)
          /\ pending' = ToProcess(selection)
    /\ pc' = "mx_process"
    /\ UNCHANGED <<cik_filter, zips_seen, files_seen, unreadable, listed, namelist, member_ix, live_tmp,
                   tmp_made, zip_text_files, loose_files, text_files, handed, tried, stats,
                   overall_stats, loadVars>>

\* step 4: one iteration of "for fp in to_process"
MX_Extract ==
    /\ pc = "mx_process"
    /\ \E fp \in pending, r \in Outcomes :
        /\ pending' = pending \ {fp}
        /\ handed' = Append(handed, fp)
        /\ stats' = CASE r = "truthy" -> MixedProcessed(stats, fp, zip_text_files)
                      [] r = "falsy" -> MixedFailed(stats, fp, zip_text_files, "")
                      [] OTHER -> MixedFailed(stats, fp, zip_text_files, "raised")
    /\ UNCHANGED <<pc, cik_filter, zips_seen, files_seen, unreadable, listed, namelist, member_ix,
                   live_tmp, tmp_made, zip_text_files, loose_files, text_files, filings,
                   to_process, to_skip, tried, overall_stats, loadVars>>

\* step 5 and return
MX_Return ==
    /\ pc = "mx_process"
    /\ pending = {}
    /\ stats' = [stats EXCEPT !.combined.skipped_10q = Skipped10Q(to_skip)]
    /\ pc' = "mx_done"
    /\ UNCHANGED <<cik_filter, zips_seen, files_seen, unreadable, listed, namelist, member_ix, live_tmp,
                   tmp_made, zip_text_files, loose_files, text_files, filings, to_process,
                   to_skip, pending, handed, tried, overall_stats, loadVars>>

Next ==
    \/ Call_process_directory
    \/ PZ_Open
    \/ PZ_File
    \/ PZ_Close
    \/ PD_Return
    \/ Call_process_mixed_directory
    \/ MX_Open
    \/ MX_Member
    \/ MX_Close
    \/ MX_Glob
    \/ MX_Register
    \/ MX_Extract
    \/ MX_Return

Spec == Init /\ [][Next]_vars

\* =========================================================== load_cik_list
\* a call of one of the two functions named load_cik_list; a path that does not
\* exist returns the empty set at once
Call_load_cik_list ==
    /\ loader = "none"
    /\ \E mod \in {"cik_filter", "cik_loader"}, exists \in BOOLEAN :
         loader' = IF exists THEN mod ELSE mod \o "_done"
    /\ ciks' = {}
    /\ rows' = <<>>
    /\ UNCHANGED runVars

\* one iteration of "for row in reader"
ReadRow ==
    /\ loader \in {"cik_filter", "cik_loader"}
    /\ Len(rows) < MaxRows
    /\ \E row \in Rows :
        /\ rows' = Append(rows, row)
        /\ ciks' = ciks \cup LoaderRow(loader, row)
    /\ UNCHANGED <<loader, runVars>>

\* end of file: the set is returned
LoadReturn ==
    /\ loader \in {"cik_filter", "cik_loader"}
    /\ loader' = loader \o "_done"
    /\ UNCHANGED <<rows, ciks, runVars>>

NextLoad == Call_load_cik_list \/ ReadRow \/ LoadReturn

SpecLoad == Init /\ [][NextLoad]_vars

\* ================================================================== claims
Selected == pc \in {"mx_process", "mx_done"}
MixedDone == pc = "mx_done"
DirDone == pc = "pd_done"

GroupsOfRegistry == {filings[i] : i \in 1..Len(filings)}

\* C1: selection partitions every (filer_id, fiscal_year) group of the
\* registry: exactly one candidate of the group is in process, all the others
\* are in skip, process and skip are disjoint and together are exactly the
\* registered candidates; a group of one yields that candidate in process and
\* nothing of it in skip.
C1_SelectionPartitions ==
    Selected =>
        /\ to_process \cap to_skip = {}
        /\ to_process \cup to_skip = UNION {GroupPaths(g) : g \in GroupsOfRegistry}
        /\ \A g \in GroupsOfRegistry :
            /\ Cardinality(GroupPaths(g) \cap to_process) = 1
            /\ GroupPaths(g) \ to_process \subseteq to_skip
            /\ Len(g.files) = 1 =>
                 /\ g.files[1].path \in to_process
                 /\ GroupPaths(g) \cap to_skip = {}

C1_Witness ==
    /\ MixedDone
    /\ \E g \in GroupsOfRegistry : Len(g.files) = 2
    /\ to_skip /= {}

\* the candidates of a group in discovery order: the indices of all_text_files
\* whose metadata give the group's key
DiscoveredIn(g) ==
    {i \in 1..Len(all_text_files) : all_text_files[i] \in GroupPaths(g)}
FormAt(i) == _parse_filename_metadata(all_text_files[i])[3]
First(S) == CHOOSE i \in S : \A j \in S : i <= j

\* C2: in every group with an Annual candidate the one candidate in process is
\* the first Annual candidate in discovery order; in every group with no
\* Annual but a Quarterly candidate it is the first Quarterly candidate in
\* discovery order; in both cases every other member of the group is in skip.
C2_AnnualPrecedence ==
    Selected =>
        \A g \in GroupsOfRegistry :
            LET annual == {i \in DiscoveredIn(g) : IsAnnual(FormAt(i))}
                quarterly == {i \in DiscoveredIn(g) : IsQuarterly(FormAt(i))}
                first == IF annual /= {} THEN First(annual) ELSE First(quarterly)
            IN annual \cup quarterly /= {} =>
                 /\ GroupPaths(g) \cap to_process = {all_text_files[first]}
                 /\ GroupPaths(g) \ {all_text_files[first]} \subseteq to_skip

C2_Witness ==
    /\ MixedDone
    /\ \E g \in GroupsOfRegistry :
         /\ Len(g.files) = 2
         /\ IsQuarterly(g.files[1].form)
         /\ IsAnnual(g.files[2].form)

\* a file name passes an identifier filter: its filer id is present and in the
\* set, and its form type is Annual
Admitted(n) ==
    LET md == _parse_filename_metadata(PathOf(0, n))
    IN md[1] /= NoCik /\ md[1] \in cik_filter.ciks /\ IsAnnual(md[3])

FileEntries(errs) == {i \in 1..Len(errs) : "zip" \notin DOMAIN errs[i].file}
ArchiveEntries(errs) == {i \in 1..Len(errs) : "zip" \in DOMAIN errs[i].file}

\* C3: with an identifier filter supplied, every candidate that is registered,
\* selected for processing or skipping, or handed to the extractor has a
\* present filer id of the filter set and an Annual form type, in
\* process_mixed_directory and in process_zip_file alike; in process_zip_file
\* no other member reaches the per-file try block either.
C3_FilterAdmitsOnlyAnnualOfSet ==
    cik_filter.given =>
        /\ \A g \in GroupsOfRegistry : \A fp \in GroupPaths(g) : Admitted(fp.name)
        /\ \A fp \in to_process \cup to_skip : Admitted(fp.name)
        /\ \A i \in 1..Len(handed) : Admitted(handed[i].name)
        /\ pc \in {"pz_files", "pd_loop", "pd_done"} =>
             \A i \in 1..Len(overall_stats.zip_stats) :
                LET errs == overall_stats.zip_stats[i].errors
                IN \A j \in FileEntries(errs) : Admitted(errs[j].file)

C3_Witness ==
    /\ MixedDone
    /\ cik_filter.given
    /\ Len(handed) = 1
    /\ files_seen = 2
    /\ stats.combined.total_files = 1

\* C5: every candidate handed to the extractor is counted exactly once, as
\* processed on a truthy result and as failed with one error entry for that
\* file otherwise, a raise counting like a falsy result; when the run ends
\* every candidate in process has been attempted exactly once.
C5_EveryAttemptCounted ==
    /\ Selected =>
        /\ stats.combined.processed + stats.combined.failed = Len(handed)
        /\ Len(stats.errors) = stats.combined.failed
        /\ \A i \in 1..Len(stats.errors) : Contains(handed, stats.errors[i].file)
        /\ \A i, j \in 1..Len(stats.errors) :
             stats.errors[i].file = stats.errors[j].file => i = j
        /\ \A i, j \in 1..Len(handed) : handed[i] = handed[j] => i = j
        /\ SeqToSet(handed) \cup pending = to_process
    /\ MixedDone => SeqToSet(handed) = to_process
    /\ pc = "pz_files" =>
        /\ overall_stats.processed + overall_stats.failed
             + stats.processed + stats.failed = tried
        /\ Len(stats.errors) = stats.failed
    /\ pc \in {"pd_loop", "pd_done"} =>
        /\ overall_stats.processed + overall_stats.failed = tried
        /\ \A i \in 1..Len(overall_stats.zip_stats) :
             LET st == overall_stats.zip_stats[i]
             IN Cardinality(FileEntries(st.errors)) = st.failed

C5_Witness ==
    /\ MixedDone
    /\ Len(handed) = 2
    /\ stats.combined.processed = 1
    /\ \E i \in 1..Len(stats.errors) : stats.errors[i].error = "raised"

\* C10: in the report of process_mixed_directory each of total_files,
\* processed and failed of "combined" is the sum of the zip_results and
\* text_results counters; processed + failed is the number of candidates
\* selected for processing and at most total_files; errors has one entry per
\* failure.
C10_StatisticsConsistent ==
    /\ Selected =>
        /\ stats.combined.total_files =
             stats.zip_results.total_files + stats.text_results.total_files
        /\ stats.combined.processed =
             stats.zip_results.processed + stats.text_results.processed
        /\ stats.combined.failed = stats.zip_results.failed + stats.text_results.failed
        /\ Len(stats.errors) = stats.combined.failed
    /\ MixedDone =>
        /\ stats.combined.processed + stats.combined.failed = Cardinality(to_process)
        /\ stats.combined.processed + stats.combined.failed <= stats.combined.total_files

C10_Witness ==
    /\ MixedDone
    /\ unreadable /= {}
    /\ stats.zip_results.processed = 1
    /\ stats.text_results.failed = 1

\* C4: each unreadable archive yields exactly one error entry naming it in the
\* statistics of the run, in process_directory and process_mixed_directory.
C4_UnreadableArchiveRecorded ==
    /\ MixedDone =>
        \A k \in unreadable :
            Cardinality({i \in ArchiveEntries(stats.errors) :
                            stats.errors[i].file = ZipRef(k)}) = 1
    /\ DirDone =>
        \A k \in unreadable :
            LET errs == overall_stats.zip_stats[k].errors
            IN Cardinality({i \in ArchiveEntries(errs) : errs[i].file = ZipRef(k)}) = 1

ExtractEntries(errs) == {i \in FileEntries(errs) : errs[i].error = "extract"}

\* C6: a member whose unpacking fails is recorded as one failed candidate with
\* an error entry, and every other recognized member of the archive, before
\* and after it, is still discovered.
C6_MemberFailureIsPerFile ==
    /\ (MixedDone /\ ~cik_filter.given) =>
        /\ Cardinality({m \in listed : m[4]}) = Len(zip_text_files)
        /\ Cardinality({m \in listed : ~m[4]}) = Cardinality(ExtractEntries(stats.errors))
    /\ (DirDone /\ ~cik_filter.given) =>
        /\ Cardinality({m \in listed : m[4]}) = Len(handed)
        /\ \A k \in 1..Len(overall_stats.zip_stats) :
             Cardinality({m \in listed : m[1] = k /\ ~m[4]})
               = Cardinality(ExtractEntries(overall_stats.zip_stats[k].errors))

\* C7: no scratch directory created by a run is still live when the run has
\* returned.
C7_ScratchReleased == (MixedDone \/ DirDone) => live_tmp = {}

\* C9: the skipped-quarterly counter is the number of Quarterly candidates
\* skipped in favour of an Annual candidate of their own group.
SupersededByAnnual ==
    {fp \in to_skip :
        /\ IsQuarterly(_parse_filename_metadata(fp)[3])
        /\ \E g \in GroupsOfRegistry :
             /\ fp \in GroupPaths(g)
             /\ \E i \in 1..Len(g.files) : IsAnnual(g.files[i].form)}
C9_SkippedCountsSuperseded ==
    MixedDone => stats.combined.skipped_10q = Cardinality(SupersededByAnnual)

\* C8: load_cik_list returns exactly the zero-padded digits of the first
\* field of every row whose first field has a digit, for both loaders.
Normalised ==
    {ZFill(OnlyDigits(rows[i][1])) :
        i \in {j \in 1..Len(rows) : rows[j] /= <<>> /\ OnlyDigits(rows[j][1]) /= <<>>}}
C8_LoadedSetNormalised ==
    loader \in {"cik_filter_done", "cik_loader_done"} =>
        /\ ciks = Normalised
        /\ \A c \in ciks : Len(c) = CikWidth /\ \A i \in 1..Len(c) : IsDigit(c[i])

====
